---------------------------- MODULE Spec2Model ----------------------------
(***************************************************************************)
(* Model of netboxProvider.Configure                                       *)
(* (internal/provider/provider.go, lines 37-196).                          *)
(*                                                                         *)
(* One Configure call is followed through its phases: decoding the         *)
(* configuration, the unknown-value checks, value selection with the       *)
(* presence checks, trailing-slash normalisation, URL parsing and the      *)
(* construction of the client.  Strings that are inspected character by    *)
(* character (the server URL) are sequences over Chars; strings that are   *)
(* only compared (token, flag environment value) are TLA+ strings.         *)
(***************************************************************************)
EXTENDS Naturals, Sequences, FiniteSets

\* ------------------------------------------------------------------ bounds
\* longest server_url given in the configuration
MaxLen == 3
\* longest NETBOX_SERVER_URL environment value
MaxEnvLen == 1

\* "h" stands for a host/path character, " " for a character that is illegal
\* in a host name, "/" is itself.
Chars == {"h", "/", " "}

Strings(n) == UNION {[1..k -> Chars] : k \in 0..n}

\* API tokens: the empty string and a real token
Tokens == {"", "t"}

\* values os.Getenv can return for NETBOX_STRIP_TRAILING_SLASHES_FROM_URL
\* (unset and empty are both "")
StripEnvValues == {"", "false", "true", "False", "0"}

\* ------------------------------------------------- framework value types
\* types.String / types.Bool: null, unknown or known; ValueString/ValueBool
\* of a null or unknown value is the zero value.
IsUnknown(f) == f.state = "unknown"
IsNull(f) == f.state = "null"
ValueString(f) == f.value
ValueBool(f) == f.value

StringField(vals, zero) ==
    {[state |-> "null", value |-> zero], [state |-> "unknown", value |-> zero]}
        \cup {[state |-> "known", value |-> v] : v \in vals}

\* provider_netbox.NetboxModel
NetboxModel ==
    [ServerUrl : StringField(Strings(MaxLen), <<>>),
     ApiToken : StringField(Tokens, ""),
     StripTrailingSlashesFromUrl : StringField(BOOLEAN, FALSE)]

\* the process environment, as os.Getenv sees it
Environment ==
    [NETBOX_SERVER_URL : Strings(MaxEnvLen),
     NETBOX_API_TOKEN : Tokens,
     NETBOX_STRIP_TRAILING_SLASHES_FROM_URL : StripEnvValues]

\* ------------------------------------------------------------ diagnostics
Diag(sev, p, summary) == [severity |-> sev, path |-> p, summary |-> summary]

AddAttributeError(diags, p, summary) == Append(diags, Diag("Error", p, summary))
AddAttributeWarning(diags, p, summary) == Append(diags, Diag("Warning", p, summary))

HasError(diags) == \E i \in 1..Len(diags) : diags[i].severity = "Error"

\* ------------------------------------------------------------ strings
HasSuffix(s, c) == Len(s) > 0 /\ s[Len(s)] = c

\* strings.TrimRight(s, cutset) for a one-character cutset: every trailing
\* occurrence goes
RECURSIVE TrimRight(_, _)
TrimRight(s, c) ==
    IF Len(s) > 0 /\ s[Len(s)] = c THEN TrimRight(SubSeq(s, 1, Len(s) - 1), c) ELSE s

\* mutant: one "/" is cut, as a single strings.TrimSuffix would
StripOnce(s) ==
    IF HasSuffix(s, "/") THEN SubSeq(s, 1, Len(s) - 1) ELSE s

\* the for loop of lines 129-132; after it strings.HasSuffix(s, "/") is false
RECURSIVE StripLoop(_)
StripLoop(s) ==
    IF HasSuffix(s, "/") THEN StripLoop(TrimRight(s, "/")) ELSE s

\* -------------------------------------------------------------- urlx.Parse
\* urlx.Parse as called at line 152.  defaultScheme: a leading "//" gets
\* "http:" in front, anything without "://" gets "http://" in front (Chars has
\* no ":").  The host is what follows up to the next "/", the path is the
\* rest.  The parse fails when the host is empty (checkHost) or holds a
\* character that is illegal in a host name (net/url).
AfterScheme(s) ==
    IF Len(s) >= 2 /\ s[1] = "/" /\ s[2] = "/" THEN SubSeq(s, 3, Len(s)) ELSE s

HostLen(r) ==
    IF \E i \in 1..Len(r) : r[i] = "/"
    THEN (CHOOSE i \in 1..Len(r) : r[i] = "/" /\ \A j \in 1..(i - 1) : r[j] # "/") - 1
    ELSE Len(r)

Nil == [nil |-> TRUE, Scheme |-> "", Host |-> <<>>, Path |-> <<>>]

UrlxParse(s) ==
    LET r == AfterScheme(s)
        n == HostLen(r)
        host == SubSeq(r, 1, n)
    IN  IF n = 0 \/ \E i \in 1..n : host[i] = " "
        THEN [url |-> Nil, err |-> TRUE]
        ELSE [url |-> [nil |-> FALSE, Scheme |-> "http", Host |-> host,
                       Path |-> SubSeq(r, n + 1, Len(r))],
              err |-> FALSE]

\* netboxclient.DefaultBasePath
DefaultBasePath == <<"/", "a", "p", "i">>

NoClient == [nil |-> TRUE, Host |-> <<>>, BasePath |-> <<>>, Schemes |-> <<>>,
             Authorization |-> <<>>]

\* lines 189-193: the transport and the client built on it
NewClient(u, token) ==
    [nil |-> FALSE, Host |-> u.Host, BasePath |-> u.Path \o DefaultBasePath,
     Schemes |-> <<u.Scheme>>, Authorization |-> <<"Token ", token>>]

\* ------------------------------------------------- the checks of Configure
\* mutant: the unknown-value checks stop at the first unknown field
UnknownChecksFailFast(cfg, d) ==
    IF IsUnknown(cfg.ServerUrl)
    THEN AddAttributeError(d, "server_url", "Unknown NetBox Server URL")
    ELSE IF IsUnknown(cfg.ApiToken)
    THEN AddAttributeError(d, "api_token", "Unknown NetBox API Token")
    ELSE IF IsUnknown(cfg.StripTrailingSlashesFromUrl)
    THEN AddAttributeError(d, "strip_trailing_slashes_from_url", "wip")
    ELSE d

\* lines 45-68: one Error per unknown field, all three looked at
UnknownChecks(cfg, d) ==
    LET d1 == IF IsUnknown(cfg.ServerUrl)
              THEN AddAttributeError(d, "server_url", "Unknown NetBox Server URL")
              ELSE d
        d2 == IF IsUnknown(cfg.ApiToken)
              THEN AddAttributeError(d1, "api_token", "Unknown NetBox API Token")
              ELSE d1
    IN  IF IsUnknown(cfg.StripTrailingSlashesFromUrl)
        THEN AddAttributeError(d2, "strip_trailing_slashes_from_url", "wip")
        ELSE d2

\* mutant: a non-empty NETBOX_SERVER_URL wins over the configuration
SelectServerUrlEnvFirst(cfg, e) ==
    IF e.NETBOX_SERVER_URL # <<>> THEN e.NETBOX_SERVER_URL ELSE ValueString(cfg.ServerUrl)

\* mutant: an empty server_url falls through to NETBOX_SERVER_URL
SelectServerUrlEmptyFallsThrough(cfg, e) ==
    IF ValueString(cfg.ServerUrl) # <<>> THEN ValueString(cfg.ServerUrl)
    ELSE e.NETBOX_SERVER_URL

\* lines 74, 77-79
SelectServerUrl(cfg, e) ==
    IF ~IsNull(cfg.ServerUrl) THEN ValueString(cfg.ServerUrl) ELSE e.NETBOX_SERVER_URL

\* lines 75, 91-93
SelectApiToken(cfg, e) ==
    IF ~IsNull(cfg.ApiToken) THEN ValueString(cfg.ApiToken) ELSE e.NETBOX_API_TOKEN

\* mutant: lines 111-113 left out, the configuration never sets the flag
SelectStripEnvOnly(cfg, e) ==
    ~(e.NETBOX_STRIP_TRAILING_SLASHES_FROM_URL = "false")

\* mutant: the environment value is read as strconv.ParseBool would read it
SelectStripParseBool(cfg, e) ==
    IF ~IsNull(cfg.StripTrailingSlashesFromUrl)
    THEN ValueBool(cfg.StripTrailingSlashesFromUrl)
    ELSE ~(e.NETBOX_STRIP_TRAILING_SLASHES_FROM_URL \in {"false", "False", "0"})

\* lines 105-113
SelectStrip(cfg, e) ==
    IF ~IsNull(cfg.StripTrailingSlashesFromUrl)
    THEN ValueBool(cfg.StripTrailingSlashesFromUrl)
    ELSE ~(e.NETBOX_STRIP_TRAILING_SLASHES_FROM_URL = "false")

\* mutant: the server_url presence check is left out
PresenceChecksTokenOnly(d, url, token) ==
    IF token = ""
    THEN AddAttributeError(d, "api_token", "Missing NetBox API Token")
    ELSE d

\* lines 81-89 and 95-103
PresenceChecks(d, url, token) ==
    LET d1 == IF url = <<>>
              THEN AddAttributeError(d, "server_url", "Missing NetBox Server URL")
              ELSE d
    IN  IF token = ""
        THEN AddAttributeError(d1, "api_token", "Missing NetBox API Token")
        ELSE d1

\* ------------------------------------------------- the phases of Configure
\* Each phase maps the locals and the response (a record) to their values at
\* the next phase.
Start ==
    [pc |-> "decode", diags |-> <<>>, serverUrl |-> <<>>, apiToken |-> "",
     stripTrailingSlashesFromUrl |-> TRUE, parsedURL |-> Nil,
     urlParseError |-> FALSE, ResourceData |-> NoClient, DataSourceData |-> NoClient]

\* lines 38-43
DecodePhase(ok, l) ==
    LET d == IF ok THEN l.diags
             ELSE AddAttributeError(l.diags, "config", "Value Conversion Error")
    IN  [l EXCEPT !.diags = d, !.pc = IF HasError(d) THEN "returned" ELSE "unknown"]

\* lines 45-72
UnknownPhase(cfg, l) ==
    LET d == UnknownChecks(cfg, l.diags)
    IN  [l EXCEPT !.diags = d, !.pc = IF HasError(d) THEN "returned" ELSE "select"]

\* mutant: the return of lines 115-117 is left out
SelectPhaseNoReturn(cfg, e, l) ==
    LET url == SelectServerUrl(cfg, e)
        token == SelectApiToken(cfg, e)
    IN  [l EXCEPT !.serverUrl = url, !.apiToken = token,
                  !.stripTrailingSlashesFromUrl = SelectStrip(cfg, e),
                  !.diags = PresenceChecks(l.diags, url, token),
                  !.pc = "normalize"]

\* lines 74-117
SelectPhase(cfg, e, l) ==
    LET url == SelectServerUrl(cfg, e)
        token == SelectApiToken(cfg, e)
        d == PresenceChecks(l.diags, url, token)
    IN  [l EXCEPT !.serverUrl = url, !.apiToken = token,
                  !.stripTrailingSlashesFromUrl = SelectStrip(cfg, e),
                  !.diags = d,
                  !.pc = IF HasError(d) THEN "returned" ELSE "normalize"]

\* lines 125-140
NormalizePhase(l) ==
    IF l.stripTrailingSlashesFromUrl
    THEN LET trimmed == HasSuffix(l.serverUrl, "/")
         IN  [l EXCEPT !.serverUrl = StripLoop(l.serverUrl),
                       !.diags = IF trimmed
                                 THEN AddAttributeWarning(l.diags,
                                        "strip_trailing_slashes_from_url",
                                        "Stripped trailing slashes from the server_url parameter")
                                 ELSE l.diags,
                       !.pc = "parse"]
    ELSE [l EXCEPT !.pc = "parse"]

\* lines 147-155: both fmt.Errorf results are dropped, nothing is recorded and
\* nothing returns
ParsePhase(l) ==
    LET r == UrlxParse(l.serverUrl)
    IN  [l EXCEPT !.parsedURL = r.url, !.urlParseError = r.err, !.pc = "build"]

\* lines 157-195: parsedURL.Scheme dereferences parsedURL; on a nil pointer the
\* goroutine panics and Configure never returns
BuildPhase(l) ==
    IF l.parsedURL.nil
    THEN [l EXCEPT !.pc = "panic"]
    ELSE LET client == NewClient(l.parsedURL, l.apiToken)
         IN  [l EXCEPT !.DataSourceData = client, !.ResourceData = client,
                       !.pc = "returned"]

Terminal == {"returned", "panic"}

Phase(cfg, e, ok, l) ==
    CASE l.pc = "decode" -> DecodePhase(ok, l)
      [] l.pc = "unknown" -> UnknownPhase(cfg, l)
      [] l.pc = "select" -> SelectPhase(cfg, e, l)
      [] l.pc = "normalize" -> NormalizePhase(l)
      [] l.pc = "parse" -> ParsePhase(l)
      [] l.pc = "build" -> BuildPhase(l)
      [] OTHER -> l

\* Configure, start to end, as a function of its inputs
RECURSIVE RunFrom(_, _, _, _)
RunFrom(cfg, e, ok, l) ==
    IF l.pc \in Terminal THEN l ELSE RunFrom(cfg, e, ok, Phase(cfg, e, ok, l))

Configure(cfg, e, ok) == RunFrom(cfg, e, ok, Start)

\* ------------------------------------------------------------------ state
VARIABLES
    config,          \* req.Config decoded into NetboxModel
    env,             \* the process environment
    decodeOk,        \* whether req.Config.Get reports no error
    pc,              \* position in Configure
    diags,           \* resp.Diagnostics
    serverUrl,       \* local serverUrl
    apiToken,        \* local apiToken
    stripTrailingSlashesFromUrl,  \* local flag
    parsedURL,       \* local parsedURL (Nil when urlx.Parse failed)
    urlParseError,   \* local urlParseError # nil
    ResourceData,    \* resp.ResourceData
    DataSourceData   \* resp.DataSourceData

vars == <<config, env, decodeOk, pc, diags, serverUrl, apiToken,
          stripTrailingSlashesFromUrl, parsedURL, urlParseError,
          ResourceData, DataSourceData>>

Cur ==
    [pc |-> pc, diags |-> diags, serverUrl |-> serverUrl, apiToken |-> apiToken,
     stripTrailingSlashesFromUrl |-> stripTrailingSlashesFromUrl,
     parsedURL |-> parsedURL, urlParseError |-> urlParseError,
     ResourceData |-> ResourceData, DataSourceData |-> DataSourceData]

Apply(l) ==
    /\ pc' = l.pc
    /\ diags' = l.diags
    /\ serverUrl' = l.serverUrl
    /\ apiToken' = l.apiToken
    /\ stripTrailingSlashesFromUrl' = l.stripTrailingSlashesFromUrl
    /\ parsedURL' = l.parsedURL
    /\ urlParseError' = l.urlParseError
    /\ ResourceData' = l.ResourceData
    /\ DataSourceData' = l.DataSourceData
    /\ UNCHANGED <<config, env, decodeOk>>

Init ==
    /\ config \in NetboxModel
    /\ env \in Environment
    /\ decodeOk \in BOOLEAN
    /\ pc = Start.pc
    /\ diags = Start.diags
    /\ serverUrl = Start.serverUrl
    /\ apiToken = Start.apiToken
    /\ stripTrailingSlashesFromUrl = Start.stripTrailingSlashesFromUrl
    /\ parsedURL = Start.parsedURL
    /\ urlParseError = Start.urlParseError
    /\ ResourceData = Start.ResourceData
    /\ DataSourceData = Start.DataSourceData

DecodeConfig == pc = "decode" /\ Apply(DecodePhase(decodeOk, Cur))

CheckUnknown == pc = "unknown" /\ Apply(UnknownPhase(config, Cur))

SelectValues == pc = "select" /\ Apply(SelectPhase(config, env, Cur))

Normalize == pc = "normalize" /\ Apply(NormalizePhase(Cur))

ParseURL == pc = "parse" /\ Apply(ParsePhase(Cur))

BuildClient == pc = "build" /\ Apply(BuildPhase(Cur))

Next ==
    \/ DecodeConfig
    \/ CheckUnknown
    \/ SelectValues
    \/ Normalize
    \/ ParseURL
    \/ BuildClient

Spec == Init /\ [][Next]_vars

\* ------------------------------------------------------ what the claims read
Fields == {"ServerUrl", "ApiToken", "StripTrailingSlashesFromUrl"}
PathOf(f) ==
    CASE f = "ServerUrl" -> "server_url"
      [] f = "ApiToken" -> "api_token"
      [] OTHER -> "strip_trailing_slashes_from_url"

AnyUnknown == \E f \in Fields : config[f].state = "unknown"

Errors == {i \in 1..Len(diags) : diags[i].severity = "Error"}
Warnings == {i \in 1..Len(diags) : diags[i].severity = "Warning"}
ErrorAt(p) == \E i \in Errors : diags[i].path = p
UnknownErrorAt(p) ==
    \E i \in Errors : diags[i].path = p /\ diags[i].summary \in
        {"Unknown NetBox Server URL", "Unknown NetBox API Token", "wip"}
MissingErrorAt(p) ==
    \E i \in Errors : diags[i].path = p /\ diags[i].summary \in
        {"Missing NetBox Server URL", "Missing NetBox API Token"}

ClientSet == ~ResourceData.nil /\ ~DataSourceData.nil
ClientUnset == ResourceData.nil /\ DataSourceData.nil

\* Configure is over: it returned or it panicked
Done == pc \in {"returned", "panic"}
\* lines 74-113 have run
Selected == pc \in {"normalize", "parse", "build", "panic"}
                \/ (pc = "returned" /\ decodeOk /\ ~AnyUnknown)
\* lines 125-140 have run
Normalized == pc \in {"parse", "build", "panic"} \/ (pc = "returned" /\ ClientSet)

\* the value the priority rule picks, read off the inputs
ChosenServerUrl ==
    IF config.ServerUrl.state = "known" THEN config.ServerUrl.value
    ELSE env.NETBOX_SERVER_URL
ChosenApiToken ==
    IF config.ApiToken.state = "known" THEN config.ApiToken.value
    ELSE env.NETBOX_API_TOKEN

ServerUrlAbsent == config.ServerUrl.state = "null" /\ env.NETBOX_SERVER_URL = <<>>
ApiTokenAbsent == config.ApiToken.state = "null" /\ env.NETBOX_API_TOKEN = ""

Slashes(k) == [i \in 1..k |-> "/"]
NoTrailingSlash(s) == Len(s) = 0 \/ s[Len(s)] # "/"
\* the numbers k of trailing "/" with s = t followed by k of them (at most one k)
StrippedBy(s, t) == {k \in 0..Len(s) : s = t \o Slashes(k)}

C2_ParseFailureIsDiagnostic ==
    urlParseError =>
        /\ pc # "panic"
        /\ Done => (Errors # {} /\ ClientUnset)

C4_ExplicitEnvDefault ==
    pc = "normalize" =>
        /\ config.ServerUrl.state = "known" => serverUrl = config.ServerUrl.value
        /\ config.ServerUrl.state = "null" => serverUrl = env.NETBOX_SERVER_URL
        /\ config.ApiToken.state = "known" => apiToken = config.ApiToken.value
        /\ config.ApiToken.state = "null" => apiToken = env.NETBOX_API_TOKEN
        /\ config.StripTrailingSlashesFromUrl.state = "known"
              => stripTrailingSlashesFromUrl = config.StripTrailingSlashesFromUrl.value
        /\ config.StripTrailingSlashesFromUrl.state = "null"
              => (stripTrailingSlashesFromUrl
                    <=> env.NETBOX_STRIP_TRAILING_SLASHES_FROM_URL # "false")
        /\ (config.StripTrailingSlashesFromUrl.state = "null"
              /\ env.NETBOX_STRIP_TRAILING_SLASHES_FROM_URL = "")
              => stripTrailingSlashesFromUrl

C4_Witness ==
    /\ pc = "normalize"
    /\ config.ServerUrl.state = "known" /\ env.NETBOX_SERVER_URL # <<>>
    /\ config.ServerUrl.value # env.NETBOX_SERVER_URL
    /\ serverUrl = config.ServerUrl.value
    /\ config.ApiToken.state = "null" /\ apiToken = "t"
    /\ config.StripTrailingSlashesFromUrl = [state |-> "known", value |-> TRUE]
    /\ env.NETBOX_STRIP_TRAILING_SLASHES_FROM_URL = "false"
    /\ stripTrailingSlashesFromUrl

\* ------------------------------------------------------------------ C5
\* C5: with stripping enabled, the URL handed to the parser is the selected
\* URL without its trailing "/" characters, none of which remains; exactly one
\* Warning is recorded when at least one was removed and none otherwise, in
\* which case the URL is unchanged.
C5_StripsAllTrailingSlashes ==
    (Normalized /\ stripTrailingSlashesFromUrl) =>
        /\ NoTrailingSlash(serverUrl)
        /\ StrippedBy(ChosenServerUrl, serverUrl) # {}
        /\ \A k \in StrippedBy(ChosenServerUrl, serverUrl) :
              Cardinality(Warnings) = IF k > 0 THEN 1 ELSE 0
        /\ NoTrailingSlash(ChosenServerUrl) =>
              (serverUrl = ChosenServerUrl /\ Warnings = {})

C5_Witness ==
    /\ pc = "returned" /\ ClientSet /\ stripTrailingSlashesFromUrl
    /\ ChosenServerUrl = <<"h", "/", "/">>
    /\ serverUrl = <<"h">>
    /\ Cardinality(Warnings) = 1

\* ------------------------------------------------------------------ C6
\* C6: with strip_trailing_slashes_from_url explicitly false, the URL handed
\* to the parser is the selected URL verbatim and no Warning is recorded,
\* whatever NETBOX_STRIP_TRAILING_SLASHES_FROM_URL holds.
C6_ExplicitFalseKeepsUrl ==
    (Normalized /\ config.StripTrailingSlashesFromUrl = [state |-> "known", value |-> FALSE])
        => (serverUrl = ChosenServerUrl /\ Warnings = {})

C6_Witness ==
    /\ pc = "returned" /\ ClientSet
    /\ config.StripTrailingSlashesFromUrl = [state |-> "known", value |-> FALSE]
    /\ env.NETBOX_STRIP_TRAILING_SLASHES_FROM_URL = "true"
    /\ serverUrl = <<"h", "/", "/">>
    /\ Warnings = {}

\* ------------------------------------------------------------------ C7
\* C7: in every Configure call that returns, the client is handed on
\* (ResourceData and DataSourceData set, to the same client) only if no Error
\* was recorded, and a call whose only diagnostic is the trailing-slash
\* Warning hands the client on.
C7_ErrorsBlockWarningsDoNot ==
    pc = "returned" =>
        /\ ClientSet => Errors = {}
        /\ ~ResourceData.nil <=> ~DataSourceData.nil
        /\ (Len(diags) = 1 /\ Warnings = {1}) => (ClientSet /\ ResourceData = DataSourceData)

C7_Witness ==
    /\ pc = "returned" /\ Len(diags) = 1 /\ Warnings = {1}
    /\ diags[1].path = "strip_trailing_slashes_from_url"
    /\ ClientSet

\* ------------------------------------------------------------------ C8
\* C8 as stated: whenever Configure gets past its checks without an Error,
\* the server URL handed to urlx.Parse (after normalisation) is non-empty and
\* the API token is non-empty.
C8_ResolvedConfigNonEmpty ==
    pc = "parse" => (serverUrl # <<>> /\ apiToken # "")

\* ------------------------------------------------------------------ C9
Outcome(l) ==
    [pc |-> l.pc, diags |-> l.diags, serverUrl |-> l.serverUrl,
     ResourceData |-> l.ResourceData, DataSourceData |-> l.DataSourceData]

NullField(zero) == [state |-> "null", value |-> zero]
EmptyField(zero) == [state |-> "known", value |-> zero]

\* C9 as stated: Configure with server_url = "" ends exactly as Configure
\* with server_url null does on the same environment and other fields (same
\* diagnostics, same server URL, same client or none); likewise api_token.
C9_AsStated ==
    Done =>
        /\ config.ServerUrl = EmptyField(<<>>) =>
              Outcome(Cur) = Outcome(Configure(
                  [config EXCEPT !.ServerUrl = NullField(<<>>)], env, decodeOk))
        /\ config.ApiToken = EmptyField("") =>
              Outcome(Cur) = Outcome(Configure(
                  [config EXCEPT !.ApiToken = NullField("")], env, decodeOk))

\* C9 amended: a present-but-empty server_url never falls through to
\* NETBOX_SERVER_URL: the call ends with no client, and with the missing-value
\* Error for server_url once the configuration is decoded and no field is
\* unknown.  It ends exactly as the call with server_url null does when
\* NETBOX_SERVER_URL is absent or empty.  Likewise for api_token.
C9_EmptyIsMissing ==
    Done =>
        /\ config.ServerUrl = EmptyField(<<>>) =>
              /\ pc = "returned" /\ ClientUnset
              /\ (decodeOk /\ ~AnyUnknown) => MissingErrorAt("server_url")
              /\ env.NETBOX_SERVER_URL = <<>> =>
                    Outcome(Cur) = Outcome(Configure(
                        [config EXCEPT !.ServerUrl = NullField(<<>>)], env, decodeOk))
        /\ config.ApiToken = EmptyField("") =>
              /\ pc = "returned" /\ ClientUnset
              /\ (decodeOk /\ ~AnyUnknown) => MissingErrorAt("api_token")
              /\ env.NETBOX_API_TOKEN = "" =>
                    Outcome(Cur) = Outcome(Configure(
                        [config EXCEPT !.ApiToken = NullField("")], env, decodeOk))

C9_Witness ==
    /\ pc = "returned" /\ config.ServerUrl = EmptyField(<<>>)
    /\ env.NETBOX_SERVER_URL = <<"h">>
    /\ config.ApiToken = EmptyField("") /\ env.NETBOX_API_TOKEN = "t"
    /\ MissingErrorAt("server_url") /\ MissingErrorAt("api_token")
    /\ serverUrl = <<>> /\ ClientUnset

\* ------------------------------------------------------------------ C10
\* C10: with strip_trailing_slashes_from_url null, the flag is false exactly
\* when NETBOX_STRIP_TRAILING_SLASHES_FROM_URL is the string "false"; for any
\* other value it is true and no trailing "/" reaches the parser.
C10_OnlyFalseDisables ==
    (Selected /\ config.StripTrailingSlashesFromUrl.state = "null") =>
        /\ env.NETBOX_STRIP_TRAILING_SLASHES_FROM_URL = "false" =>
              /\ ~stripTrailingSlashesFromUrl
              /\ Normalized => serverUrl = ChosenServerUrl
        /\ env.NETBOX_STRIP_TRAILING_SLASHES_FROM_URL # "false" =>
              /\ stripTrailingSlashesFromUrl
              /\ Normalized => NoTrailingSlash(serverUrl)

C10_Witness ==
    /\ pc = "returned" /\ ClientSet
    /\ config.StripTrailingSlashesFromUrl.state = "null"
    /\ env.NETBOX_STRIP_TRAILING_SLASHES_FROM_URL = "False"
    /\ ChosenServerUrl = <<"h", "/">> /\ serverUrl = <<"h">>

=============================================================================
